---- MODULE Spec2Model ----
(***************************************************************************)
(* Train/test split engine and shuffle bookkeeping of                      *)
(* deeplabcut/generate_training_dataset/trainingsetmanipulation.py.        *)
(*                                                                         *)
(* Index arrays are sequences of integers, the padding sentinel is -1.     *)
(* A train fraction is carried as an integer number of thousandths (800   *)
(* is the float 0.8, 333 the float 0.333); a two-decimal float is carried  *)
(* as its number of hundredths (pct).  The few places where the code does  *)
(* binary floating-point arithmetic whose rounding decides a branch        *)
(* (index_len * train_fraction, round(x, 2), int(100 * f)) are computed    *)
(* exactly as IEEE-754 doubles round, in integer arithmetic.               *)
(***************************************************************************)
EXTENDS Integers, Sequences, FiniteSets, TLC

VARIABLES
    pc,       \* "idle": no call in progress; "done": a call has returned or raised
    call,     \* the operation called last and its arguments
    ret,      \* what that call returned or raised
    cfg,      \* the project: config.yaml and the labeled data it lists
    docs,     \* training-datasets folder: Documentation_data-*_<pct>shuffle<idx>.pickle
    models,   \* model folders whose train pose config file exists: <<pct, shuffle>>
    ledger,   \* the shuffle metadata ledger (metadata.yaml)
    trainset_folder   \* TRUE when the training-set folder of the iteration exists

vars == <<pc, call, ret, cfg, docs, models, ledger, trainset_folder>>

disk == <<cfg, docs, models, ledger, trainset_folder>>

(***************************************************************************)
(* Bounds of the model.                                                    *)
(***************************************************************************)
MaxCount == 50        \* largest len(trialindex) given to SplitTrials
MaxPermLen == 3       \* up to this length every permutation is drawn
MaxTrain == 28        \* largest n_train given to the padding calculators
MaxTest == 8          \* largest n_test given to the padding calculators

Sentinel == -1

(***************************************************************************)
(* Integer helpers.                                                        *)
(***************************************************************************)
Abs(x) == IF x < 0 THEN -x ELSE x

Max2(a, b) == IF a >= b THEN a ELSE b

RECURSIVE Gcd(_, _)
Gcd(a, b) == IF b = 0 THEN a ELSE Gcd(b, a % b)

RECURSIVE Pow2(_)
Pow2(e) == IF e <= 0 THEN 1 ELSE 2 * Pow2(e - 1)

RECURSIVE PowMod2(_, _)
PowMod2(e, m) == IF e = 0 THEN 1 % m ELSE (2 * PowMod2(e - 1, m)) % m

\* math.ceil(a / b) for integers a >= 0, b > 0
CeilDiv(a, b) == (a + b - 1) \div b

(***************************************************************************)
(* IEEE-754 double arithmetic, exact.  A double has a 53 bit mantissa: the *)
(* double nearest to a/b (0 < a < b) is M / 2^k with k = 52 + BinExp(a, b) *)
(* and M = round(a * 2^k / b); the sign of its error is read off           *)
(* a * 2^k mod b, which needs no wide integers.                            *)
(***************************************************************************)
RECURSIVE BinExpFrom(_, _, _)
BinExpFrom(a, b, j) == IF a * Pow2(j) >= b THEN j ELSE BinExpFrom(a, b, j + 1)

\* smallest j with a * 2^j >= b
BinExp(a, b) == BinExpFrom(a, b, 0)

RECURSIVE Log2FloorFrom(_, _)
Log2FloorFrom(q, t) == IF Pow2(t + 1) <= q THEN Log2FloorFrom(q, t + 1) ELSE t

\* floor(log2(q)) for q >= 1
Log2Floor(q) == Log2FloorFrom(q, 0)

\* a * 2^k mod b for the k of the double nearest to a/b
FloatRem(a, b) == (a * PowMod2(52 + BinExp(a, b), b)) % b

\* sign of float(a/b) - a/b, for 0 < a < b
FloatErrSign(a, b) ==
    LET rem == FloatRem(a, b)
    IN  IF rem = 0 THEN 0 ELSE IF 2 * rem < b THEN -1 ELSE 1

\* r with float(pct/100) = pct/100 - r / (100 * 2^k), for 0 < pct < 100
FloatSignedRem(pct) ==
    LET rem == FloatRem(pct, 100)
    IN  IF 2 * rem < 100 THEN rem ELSE rem - 100

\* The double n * float(pct/100), as [int |-> int(p), is_integer |-> p.is_integer()].
\* When n*pct/100 is no integer the product is far from every integer; when
\* it is the integer q, the product is q exactly iff the error n*r/(100*2^k)
\* is at most half an ulp of q (ties go to q, whose mantissa is even).
FloatMul(n, pct) ==
    LET q100 == n * pct
        q == q100 \div 100
    IN  IF q100 % 100 # 0 THEN [int |-> q, is_integer |-> FALSE]
        ELSE IF pct = 0 \/ pct = 100 \/ n = 0 THEN [int |-> q, is_integer |-> TRUE]
        ELSE LET r == FloatSignedRem(pct)
                 j == BinExp(pct, 100)
                 t == Log2Floor(q)
                 belowPow2 == r > 0 /\ q = Pow2(t)
                 lhs == 4 * Abs(n * r)
                 rhs == IF belowPow2 THEN 100 * Pow2(j + t) ELSE 100 * Pow2(j + t + 1)
             IN  IF r = 0 \/ lhs <= rhs THEN [int |-> q, is_integer |-> TRUE]
                 ELSE IF r > 0 THEN [int |-> q - 1, is_integer |-> FALSE]
                 ELSE [int |-> q, is_integer |-> FALSE]

\* round(a / b, 2) in hundredths, b > 0: Python rounds the exact binary value
\* of the double a/b, so a decimal tie is decided by the error of the double,
\* and by round-half-even when the double is the tie exactly.
Round2Div(a, b) ==
    IF a <= 0 \/ a >= b \/ (200 * a) % b # 0 \/ ((200 * a) \div b) % 2 = 0
    THEN (200 * a + b) \div (2 * b)
    ELSE LET lo == (((200 * a) \div b) - 1) \div 2
             s == FloatErrSign(a, b)
         IN  IF s > 0 THEN lo + 1
             ELSE IF s < 0 THEN lo
             ELSE IF lo % 2 = 0 THEN lo ELSE lo + 1

\* round(trainFraction, 2) of a fraction given in thousandths, in hundredths
Round2(tf) == Round2Div(tf, 1000)

\* abs(trainFraction - round(trainFraction, 2)) > 0
NotTwoDigit(tf) == tf # 10 * Round2(tf)

(***************************************************************************)
(* pad_train_test_indices, lines 626-647.                                  *)
(***************************************************************************)
Repeat(x, k) == [i \in 1..k |-> x]

Pad(inds, k) == inds \o Repeat(Sentinel, k)

\* a slip in line 635: the base length 100 is not reduced by the gcd
PadTargetBase100(n_train_inds, n_test_inds, pct) ==
    LET min_n_train == pct
        min_n_test == 100 - pct
        mult == Max2(CeilDiv(n_train_inds, min_n_train), CeilDiv(n_test_inds, min_n_test))
    IN  IF min_n_train = 0 \/ min_n_test = 0
        THEN [kind |-> "raise", error |-> "ZeroDivisionError"]
        ELSE [kind |-> "ok", n_train |-> mult * min_n_train, n_test |-> mult * min_n_test]

\* lines 635-643: the lengths the two arrays are padded to
PadTarget(n_train_inds, n_test_inds, pct) ==
    LET min_length_req == 100 \div Gcd(100, pct)
        min_n_train == (min_length_req * pct) \div 100
        min_n_test == min_length_req - min_n_train
        mult == Max2(CeilDiv(n_train_inds, min_n_train), CeilDiv(n_test_inds, min_n_test))
    IN  IF min_n_train = 0 \/ min_n_test = 0
        THEN [kind |-> "raise", error |-> "ZeroDivisionError"]
        ELSE [kind |-> "ok", n_train |-> mult * min_n_train, n_test |-> mult * min_n_test]

pad_train_test_indices(train_inds, test_inds, pct) ==
    LET n_train_inds == Len(train_inds)
        n_test_inds == Len(test_inds)
        index_len == n_train_inds + n_test_inds
        tgt == PadTarget(n_train_inds, n_test_inds, pct)
    IN  IF index_len = 0 THEN [kind |-> "raise", error |-> "ZeroDivisionError"]
        ELSE IF 100 * n_train_inds = pct * index_len THEN [kind |-> "None"]
        ELSE IF tgt.kind = "raise" THEN tgt
        ELSE [kind |-> "tuple",
              train |-> Pad(train_inds, tgt.n_train - n_train_inds),
              test |-> Pad(test_inds, tgt.n_test - n_test_inds)]

(***************************************************************************)
(* SplitTrials, lines 588-623.  shuffle is the outcome of                  *)
(* np.random.permutation(trialindex).                                      *)
(***************************************************************************)
EmptySplit == [kind |-> "tuple", train |-> <<>>, test |-> <<>>]

\* line 598
OutOfRange(tf) == tf > 1000 \/ tf < 0

\* line 615: shuffle[: int(train_size)]
TrainSlice(shuffle, k) == SubSeq(shuffle, 1, k)

\* a slip in line 614: the test slice starts one element early
TestSliceFromK(shuffle, k) == SubSeq(shuffle, Max2(k, 1), Len(shuffle))

\* line 614: shuffle[int(train_size) :]
TestSlice(shuffle, k) == SubSeq(shuffle, k + 1, Len(shuffle))

\* lines 617-621: the result of pad_train_test_indices is unpacked into two names
Unpack(r) == IF r.kind = "None" THEN [kind |-> "raise", error |-> "TypeError"] ELSE r

SplitTrials(trialindex, trainFraction, enforce_train_fraction, shuffle) ==
    IF OutOfRange(trainFraction) THEN EmptySplit
    ELSE IF NotTwoDigit(trainFraction) THEN EmptySplit
    ELSE LET index_len == Len(trialindex)
             train_fraction == Round2(trainFraction)
             train_size == FloatMul(index_len, train_fraction)
             test_indices == TestSlice(shuffle, train_size.int)
             train_indices == TrainSlice(shuffle, train_size.int)
         IN  IF enforce_train_fraction /\ ~train_size.is_integer
             THEN Unpack(pad_train_test_indices(train_indices, test_indices, train_fraction))
             ELSE [kind |-> "tuple", train |-> train_indices, test |-> test_indices]

(***************************************************************************)
(* _compute_padding, lines 1798-1827.  The while loop is run step by step; *)
(* it cannot end when a step is 0 and its target is still short.           *)
(***************************************************************************)
\* a slip in line 1823: the loop goes on while both targets are short
RECURSIVE PaddingLoopWhileBoth(_, _, _, _, _, _)
PaddingLoopWhileBoth(tgt_train, tgt_test, train_step, test_step, num_train, num_test) ==
    IF tgt_train < num_train /\ tgt_test < num_test
    THEN PaddingLoopWhileBoth(tgt_train + train_step, tgt_test + test_step,
                              train_step, test_step, num_train, num_test)
    ELSE [kind |-> "tuple", train |-> tgt_train - num_train, test |-> tgt_test - num_test]

RECURSIVE PaddingLoop(_, _, _, _, _, _)
PaddingLoop(tgt_train, tgt_test, train_step, test_step, num_train, num_test) ==
    IF tgt_train < num_train \/ tgt_test < num_test
    THEN IF (train_step = 0 /\ tgt_train < num_train) \/ (test_step = 0 /\ tgt_test < num_test)
         THEN [kind |-> "diverges"]
         ELSE PaddingLoop(tgt_train + train_step, tgt_test + test_step,
                          train_step, test_step, num_train, num_test)
    ELSE [kind |-> "tuple", train |-> tgt_train - num_train, test |-> tgt_test - num_test]

compute_padding(train_fraction, num_train, num_test) ==
    IF train_fraction <= 0 \/ train_fraction >= 1000
    THEN [kind |-> "raise", error |-> "ValueError"]
    ELSE LET base_images == 100
             train_step == Round2(train_fraction)
             test_step == base_images - train_step
         IN  PaddingLoop(train_step, test_step, train_step, test_step, num_train, num_test)

(***************************************************************************)
(* create_training_dataset_from_existing_split, lines 1769-1778: the       *)
(* stored split is padded so that the fraction create_training_dataset     *)
(* derives from it is the configured one.                                  *)
(***************************************************************************)
\* a slip in line 1778: the test indices get the padding of the train indices
PadExistingSplitTrainPaddingTwice(train_idx, test_idx, cfgFraction) ==
    LET n_train == Len(train_idx)
        n_test == Len(test_idx)
        train_fraction == Round2(cfgFraction)
    IN  IF n_train + n_test = 0 THEN [kind |-> "raise", error |-> "ZeroDivisionError"]
        ELSE IF Round2Div(n_train, n_train + n_test) # train_fraction
        THEN LET padding == compute_padding(10 * train_fraction, n_train, n_test)
             IN  IF padding.kind # "tuple" THEN padding
                 ELSE [kind |-> "tuple",
                       train |-> Pad(train_idx, padding.train),
                       test |-> Pad(test_idx, padding.train)]
        ELSE [kind |-> "tuple", train |-> train_idx, test |-> test_idx]

PadExistingSplit(train_idx, test_idx, cfgFraction) ==
    LET n_train == Len(train_idx)
        n_test == Len(test_idx)
        train_fraction == Round2(cfgFraction)
    IN  IF n_train + n_test = 0 THEN [kind |-> "raise", error |-> "ZeroDivisionError"]
        ELSE IF Round2Div(n_train, n_train + n_test) # train_fraction
        THEN LET padding == compute_padding(10 * train_fraction, n_train, n_test)
             IN  IF padding.kind # "tuple" THEN padding
                 ELSE [kind |-> "tuple",
                       train |-> Pad(train_idx, padding.train),
                       test |-> Pad(test_idx, padding.test)]
        ELSE [kind |-> "tuple", train |-> train_idx, test |-> test_idx]

(***************************************************************************)
(* create_training_dataset, lines 1161-1164: the padding is removed.       *)
(***************************************************************************)
\* lines 1153-1155: the train fraction of a split the caller passes, from
\* the lengths of its arrays as they are passed
DerivedFraction(train_inds, test_inds) ==
    10 * Round2Div(Len(train_inds), Len(train_inds) + Len(test_inds))

\* a slip in lines 1162 and 1164: inds[inds > 0] drops the real index 0 too
IsPositive(i) == i > 0

StripPositive(inds) == SelectSeq(inds, IsPositive)

IsReal(i) == i # Sentinel

Strip(inds) == SelectSeq(inds, IsReal)

(***************************************************************************)
(* format_training_data, lines 745-783.  df is a sequence of frames, a     *)
(* frame a sequence of keypoints [x, y], one per bodypart; a coordinate is *)
(* NaN, the empty tuple, or <<h>>, a number h of half pixels (<<3>> is     *)
(* 1.5), so that astype(int) has something to cut.  Every image has the    *)
(* shape                                                                   *)
(* (bands, height, width) = (3, ImgHeight, ImgWidth).                      *)
(***************************************************************************)
ImgWidth == 3         \* width of the images, in pixels
ImgHeight == 2        \* height of the images, in pixels

NaN == <<>>

ImgShape == <<3, ImgHeight, ImgWidth>>

\* line 762, astype(int) of a float: the fraction is cut, towards zero
AsInt(c) == IF c[1] >= 0 THEN c[1] \div 2 ELSE -((-c[1]) \div 2)

\* line 762: a row with a NaN is dropped
NotNaN(row) == row[2] # NaN /\ row[3] # NaN

\* lines 760-762: the rows (bodypart, x, y) of frame i that are labeled
LabeledJoints(df, i, nbodyparts) ==
    LET joints == [b \in 1..nbodyparts |-> <<b - 1, df[i + 1][b].x, df[i + 1][b].y>>]
        labeled == SelectSeq(joints, NotNaN)
    IN  [k \in 1..Len(labeled) |->
            <<labeled[k][1], AsInt(labeled[k][2]), AsInt(labeled[k][3])>>]

\* lines 764-767
Inside(joint, img_shape) ==
    /\ joint[2] < img_shape[3] /\ joint[2] > 0
    /\ joint[3] < img_shape[2] /\ joint[3] > 0

\* lines 755-771: the entry of frame i, before the test of line 770
FrameEntry(df, i, nbodyparts, img_shape) ==
    LET inside(joint) == Inside(joint, img_shape)
    IN  [image |-> i, size |-> img_shape,
         joints |-> SelectSeq(LabeledJoints(df, i, nbodyparts), inside)]

HasJoints(data) == Len(data.joints) > 0

\* a slip in line 770: the entry is appended whatever joints.size
format_training_data_keep_empty(df, train_inds, nbodyparts, img_shape) ==
    [k \in 1..Len(train_inds) |-> FrameEntry(df, train_inds[k], nbodyparts, img_shape)]

\* train_data of lines 746-783; matlab_data holds the same entries
format_training_data(df, train_inds, nbodyparts, img_shape) ==
    SelectSeq([k \in 1..Len(train_inds) |->
                  FrameEntry(df, train_inds[k], nbodyparts, img_shape)], HasJoints)

(***************************************************************************)
(* Inputs.                                                                 *)
(***************************************************************************)
\* range(n)
Range(n) == [i \in 1..n |-> i - 1]

\* range(from, from + n)
RangeFrom(from, n) == [i \in 1..n |-> from + i - 1]

Injective(p) == \A i, j \in DOMAIN p : i # j => p[i] # p[j]

\* Outcomes of np.random.permutation(range(n)): every permutation of a short
\* index, the n rotations of a long one.
PermutationsOf(n) ==
    IF n <= MaxPermLen
    THEN {p \in [1..n -> 0..(n - 1)] : Injective(p)}
    ELSE {[i \in 1..n |-> (i - 1 + k) % n] : k \in 0..(n - 1)}

\* Every two-decimal fraction from 0.00 to 1.00, and fractions SplitTrials
\* rejects: -0.01, 0.333, 1.01.
TrainFractions == {10 * p : p \in 0..100} \cup {-10, 333, 1010}

NoCall == [op |-> "none"]

NoRet == [kind |-> "none"]

NoFiles == <<>>

\* a project with two labeled frames and the train fraction 0.5
SmallProject == [TrainingFraction |-> <<500>>, rows |-> 2, hasData |-> TRUE]

(***************************************************************************)
(* The pure functions, called on their own.                                *)
(***************************************************************************)
CallSplitTrials ==
    /\ pc = "idle"
    /\ \E n \in 0..MaxCount, tf \in TrainFractions, e \in BOOLEAN :
         \E sh \in PermutationsOf(n) :
            /\ call' = [op |-> "SplitTrials", n |-> n, trainFraction |-> tf,
                        enforce |-> e, shuffle |-> sh]
            /\ ret' = SplitTrials(Range(n), tf, e, sh)
    /\ pc' = "done"
    /\ UNCHANGED disk

CallPad ==
    /\ pc = "idle"
    /\ \E nt \in 0..MaxTrain, ne \in 0..MaxTest, pct \in 0..100 :
            /\ call' = [op |-> "pad_train_test_indices", n_train |-> nt,
                        n_test |-> ne, pct |-> pct]
            /\ ret' = pad_train_test_indices(Range(nt), RangeFrom(nt, ne), pct)
    /\ pc' = "done"
    /\ UNCHANGED disk

\* Every two-decimal fraction from 0.00 to 1.00, and the three-decimal
\* fractions next to 0 and to 1, which round(train_fraction, 2) takes to
\* 0.0, 0.01, 0.99 and 1.0.
PaddingFractions == {10 * p : p \in 0..100} \cup {1, 4, 5, 6, 994, 995, 996, 999}

\* pct: the hundredths of train_fraction, cut
CallComputePadding ==
    /\ pc = "idle"
    /\ \E nt \in 0..MaxTrain, ne \in 0..MaxTest, tf \in PaddingFractions :
            /\ call' = [op |-> "compute_padding", n_train |-> nt,
                        n_test |-> ne, pct |-> tf \div 10, train_fraction |-> tf]
            /\ ret' = compute_padding(tf, nt, ne)
    /\ pc' = "done"
    /\ UNCHANGED disk

CallPadExistingSplit ==
    /\ pc = "idle"
    /\ \E nt \in 0..MaxTrain, ne \in 0..MaxTest, tf \in TrainFractions :
            /\ call' = [op |-> "PadExistingSplit", train_idx |-> Range(nt),
                        test_idx |-> RangeFrom(nt, ne), trainFraction |-> tf]
            /\ ret' = PadExistingSplit(Range(nt), RangeFrom(nt, ne), tf)
    /\ pc' = "done"
    /\ UNCHANGED disk

\* coordinates from one pixel left of the image to half a pixel right of it
Coords == {NaN} \cup {<<h>> : h \in (-2)..(2 * ImgWidth + 1)}

Keypoints == [x : Coords, y : Coords]

MissingKeypoint == [x |-> NaN, y |-> NaN]

\* the keypoint at the pixel (1, 1)
InsideKeypoint == [x |-> <<2>>, y |-> <<2>>]

\* train indices over two frames
TrainIndsOfTwo == {<<>>, <<0>>, <<1>>, <<0, 1>>, <<1, 0>>}

\* frame 0 has one keypoint anywhere and one that is missing or inside; the
\* keypoints of frame 1 are both missing or both inside
CallFormatTrainingData ==
    /\ pc = "idle"
    /\ \E first \in Keypoints, second \in {MissingKeypoint, InsideKeypoint},
          other \in {MissingKeypoint, InsideKeypoint}, train_inds \in TrainIndsOfTwo :
         LET df == <<(<<first, second>>), (<<other, other>>)>>
         IN  /\ call' = [op |-> "format_training_data", df |-> df, train_inds |-> train_inds]
             /\ ret' = [kind |-> "list",
                        train_data |-> format_training_data(df, train_inds, 2, ImgShape)]
    /\ pc' = "done"
    /\ UNCHANGED disk

Return ==
    /\ pc = "done"
    /\ pc' = "idle"
    /\ call' = NoCall
    /\ ret' = NoRet
    /\ UNCHANGED disk

SplitInit ==
    /\ pc = "idle"
    /\ call = NoCall
    /\ ret = NoRet
    /\ cfg = SmallProject
    /\ docs = NoFiles
    /\ models = {}
    /\ ledger = NoFiles
    /\ trainset_folder = FALSE

SplitNext ==
    \/ CallSplitTrials
    \/ CallPad
    \/ CallComputePadding
    \/ CallPadExistingSplit
    \/ CallFormatTrainingData
    \/ Return

SplitSpec == SplitInit /\ [][SplitNext]_vars

(***************************************************************************)
(* Properties of the split engine, checked under SplitSpec.                *)
(***************************************************************************)
\* number of positions of seq that hold x
Count(x, seq) == Cardinality({i \in DOMAIN seq : seq[i] = x})

\* a fraction SplitTrials accepts: two decimals, not below 0, not above 1
Accepted(tf) == tf >= 0 /\ tf <= 1000 /\ tf % 10 = 0

\* a valid train fraction: two decimals, 0 < f < 1
ValidFraction(tf) == tf > 0 /\ tf < 1000 /\ tf % 10 = 0

IsSplitCall(enforce) == pc = "done" /\ call.op = "SplitTrials" /\ call.enforce = enforce

\* C1: without enforce_train_fraction, SplitTrials returns a partition of the
\* input index: every input index is in exactly one of train and test, once,
\* so the two lengths add up to total_count.
C1_Partition ==
    (IsSplitCall(FALSE) /\ Accepted(call.trainFraction)) =>
        /\ ret.kind = "tuple"
        /\ Len(ret.train) + Len(ret.test) = call.n
        /\ \A i \in 0..(call.n - 1) : Count(i, ret.train) + Count(i, ret.test) = 1

C1_Witness ==
    /\ IsSplitCall(FALSE) /\ ValidFraction(call.trainFraction)
    /\ call.n = MaxCount
    /\ ret.kind = "tuple" /\ Len(ret.train) > 0 /\ Len(ret.test) > 0
    /\ ret.train # TrainSlice(Range(call.n), Len(ret.train))

\* C2: with enforce_train_fraction, SplitTrials returns two arrays whose
\* lengths are in the ratio f exactly: 100 * len(train) = pct * (len(train) + len(test)).
C2_ExactRatio ==
    (IsSplitCall(TRUE) /\ ValidFraction(call.trainFraction)) =>
        /\ ret.kind = "tuple"
        /\ 100 * Len(ret.train) = (call.trainFraction \div 10) * (Len(ret.train) + Len(ret.test))

\* C3: stripping the -1 entries of a padded split gives back the unpadded
\* train and test indices, whether SplitTrials padded it or
\* create_training_dataset_from_existing_split did.
C3_PadStripRoundTrip ==
    /\ (IsSplitCall(TRUE) /\ ret.kind = "tuple") =>
          LET unpadded == SplitTrials(Range(call.n), call.trainFraction, FALSE, call.shuffle)
          IN  /\ Strip(ret.train) = unpadded.train
              /\ Strip(ret.test) = unpadded.test
    /\ (pc = "done" /\ call.op = "PadExistingSplit" /\ ret.kind = "tuple") =>
          /\ Strip(ret.train) = call.train_idx
          /\ Strip(ret.test) = call.test_idx

\* a split that SplitTrials padded on both sides, index 0 among its train indices
C3_Witness ==
    /\ IsSplitCall(TRUE) /\ ret.kind = "tuple"
    /\ Count(Sentinel, ret.train) > 0 /\ Count(Sentinel, ret.test) > 0
    /\ Count(0, ret.train) = 1
    /\ Strip(ret.train) # ret.train

\* C4: SplitTrials returns the empty split for every fraction outside
\* 0 < f < 1 and for every fraction that is not a two-decimal number.
C4_InvalidFractionEmptySplit ==
    (pc = "done" /\ call.op = "SplitTrials" /\ ~ValidFraction(call.trainFraction)) =>
        ret = EmptySplit

ExactSplit(n_train, n_test, pct) ==
    n_train + n_test > 0 /\ 100 * n_train = pct * (n_train + n_test)

\* C9: on a split whose ratio is the train fraction already,
\* pad_train_test_indices adds no sentinel and _compute_padding returns (0, 0).
C9_PaddingNoOpOnExact ==
    /\ (pc = "done" /\ call.op = "compute_padding"
            /\ call.train_fraction = 10 * call.pct
            /\ call.pct \in 1..99 /\ ExactSplit(call.n_train, call.n_test, call.pct)) =>
          ret = [kind |-> "tuple", train |-> 0, test |-> 0]
    /\ (pc = "done" /\ call.op = "pad_train_test_indices"
            /\ call.pct \in 1..99 /\ ExactSplit(call.n_train, call.n_test, call.pct)) =>
          (ret.kind = "tuple" => (Count(Sentinel, ret.train) = 0 /\ Count(Sentinel, ret.test) = 0))

Divides(d, n) == n % d = 0

GreatestCommonDivisor(a, b) ==
    CHOOSE d \in 1..a : /\ Divides(d, a) /\ Divides(d, b)
                        /\ \A e \in (d + 1)..a : ~(Divides(e, a) /\ Divides(e, b))

MinLen(pct) == 100 \div GreatestCommonDivisor(100, pct)

MinTrain(pct) == pct \div GreatestCommonDivisor(100, pct)

MinTest(pct) == MinLen(pct) - MinTrain(pct)

Covers(m, n_train, n_test, pct) ==
    m * MinTrain(pct) >= n_train /\ m * MinTest(pct) >= n_test

\* the smallest positive multiplier whose multiples cover both lengths
SmallestMult(n_train, n_test, pct) ==
    CHOOSE m \in 1..(n_train + n_test + 1) :
        /\ Covers(m, n_train, n_test, pct)
        /\ \A k \in 1..(m - 1) : ~Covers(k, n_train, n_test, pct)

\* C10: a split whose ratio is not the train fraction is padded by
\* pad_train_test_indices to the lengths (m * min_train, m * min_test), m the
\* smallest positive multiplier that covers n_train and n_test; 26 train and
\* 7 test indices at f = 0.8 are padded to 28 and 7.
C10_PadTargetLengths ==
    (pc = "done" /\ call.op = "pad_train_test_indices" /\ call.pct \in 1..99
        /\ call.n_train + call.n_test > 0
        /\ ~ExactSplit(call.n_train, call.n_test, call.pct)) =>
        LET m == SmallestMult(call.n_train, call.n_test, call.pct)
        IN  /\ ret.kind = "tuple"
            /\ Len(ret.train) = m * MinTrain(call.pct)
            /\ Len(ret.test) = m * MinTest(call.pct)
            /\ Count(Sentinel, ret.train) = m * MinTrain(call.pct) - call.n_train
            /\ Count(Sentinel, ret.test) = m * MinTest(call.pct) - call.n_test
            /\ (call.n_train = 26 /\ call.n_test = 7 /\ call.pct = 80) =>
                  (Count(Sentinel, ret.train) = 2 /\ Count(Sentinel, ret.test) = 0)

C10_Witness ==
    /\ pc = "done" /\ call.op = "pad_train_test_indices"
    /\ call.n_train = 26 /\ call.n_test = 7 /\ call.pct = 80
    /\ ret.kind = "tuple" /\ Len(ret.train) = 28 /\ Len(ret.test) = 7

\* C11: for every two-decimal fraction f = pct / 100 in (0, 1) and all
\* n_train, n_test >= 0, _compute_padding returns two deltas that are not
\* negative and make the ratio exact in integer arithmetic:
\* 100 * (n_train + d_train) = pct * (n_train + d_train + n_test + d_test).
C11_PaddingExactAndNonNegative ==
    (pc = "done" /\ call.op = "compute_padding"
        /\ call.train_fraction = 10 * call.pct /\ call.pct \in 1..99) =>
        /\ ret.kind = "tuple"
        /\ ret.train >= 0 /\ ret.test >= 0
        /\ 100 * (call.n_train + ret.train) =
               call.pct * (call.n_train + ret.train + call.n_test + ret.test)

\* 28 train and 8 test indices at 0.1: the loop runs twice, to 30 and 270
C11_Witness ==
    /\ pc = "done" /\ call.op = "compute_padding"
    /\ call.pct = 10 /\ call.n_train = 28 /\ call.n_test = 8
    /\ ret = [kind |-> "tuple", train |-> 2, test |-> 262]

\* the bodyparts of frame i that have an entry in the joints of the output
KeptBodyparts(train_data, i) ==
    {b \in 0..(ImgWidth + ImgHeight) :
        \E k \in DOMAIN train_data :
            /\ train_data[k].image = i
            /\ \E j \in DOMAIN train_data[k].joints : train_data[k].joints[j][1] = b}

\* C13: format_training_data keeps a labeled keypoint of a train frame if and
\* only if both coordinates are present and its integer pixel position is in
\* the image, 0 <= x < width and 0 <= y < height; x = 0 and y = 0 are kept.
C13_KeptIffInsideImage ==
    (pc = "done" /\ call.op = "format_training_data") =>
        \A k \in DOMAIN call.train_inds :
            LET i == call.train_inds[k]
            IN  \A b \in DOMAIN call.df[i + 1] :
                    LET kp == call.df[i + 1][b]
                    IN  ((b - 1) \in KeptBodyparts(ret.train_data, i)) <=>
                            /\ kp.x # NaN /\ kp.y # NaN
                            /\ 0 <= AsInt(kp.x) /\ AsInt(kp.x) < ImgWidth
                            /\ 0 <= AsInt(kp.y) /\ AsInt(kp.y) < ImgHeight

\* the frame has a keypoint that line 762 and lines 764-769 leave
HasValidKeypoint(df, i) ==
    \E b \in DOMAIN df[i + 1] :
        /\ df[i + 1][b].x # NaN /\ df[i + 1][b].y # NaN
        /\ 0 < AsInt(df[i + 1][b].x) /\ AsInt(df[i + 1][b].x) < ImgWidth
        /\ 0 < AsInt(df[i + 1][b].y) /\ AsInt(df[i + 1][b].y) < ImgHeight

RECURSIVE FramesWithKeypoints(_, _)
FramesWithKeypoints(df, train_inds) ==
    IF train_inds = <<>> THEN <<>>
    ELSE (IF HasValidKeypoint(df, Head(train_inds)) THEN <<Head(train_inds)>> ELSE <<>>)
             \o FramesWithKeypoints(df, Tail(train_inds))

\* C14: format_training_data outputs one entry per train index that has a
\* keypoint left after the filtering, in the order of train_inds, none for a
\* frame with no valid keypoint, and every entry has a joints array that is
\* not empty.
C14_OneEntryPerLabeledFrame ==
    (pc = "done" /\ call.op = "format_training_data") =>
        /\ \A k \in DOMAIN ret.train_data : Len(ret.train_data[k].joints) > 0
        /\ [k \in DOMAIN ret.train_data |-> ret.train_data[k].image] =
               FramesWithKeypoints(call.df, call.train_inds)

\* frame 1 before frame 0, whose keypoints are all filtered out
C14_Witness ==
    /\ pc = "done" /\ call.op = "format_training_data"
    /\ call.train_inds = <<1, 0>>
    /\ call.df[1][1].x # NaN /\ call.df[1][1].y # NaN
    /\ Len(ret.train_data) = 1 /\ ret.train_data[1].image = 1
    /\ Len(ret.train_data[1].joints) = 2

\* C29: for every valid train fraction f = pct / 100 and every total_count,
\* SplitTrials without enforce_train_fraction returns a train array of exactly
\* floor(total_count * pct / 100) elements, in integer arithmetic, and a test
\* array of the remaining total_count - floor(total_count * pct / 100).
C29_TrainSizeIsFloor ==
    (IsSplitCall(FALSE) /\ ValidFraction(call.trainFraction)) =>
        LET train_size == (call.n * (call.trainFraction \div 10)) \div 100
        IN  /\ ret.kind = "tuple"
            /\ Len(ret.train) = train_size
            /\ Len(ret.test) = call.n - train_size

\* C26: _compute_padding yields the minimal exact padding: for every
\* two-decimal f in (0, 1) and all n_train, n_test, the lengths it pads to are
\* those of the gcd-reduced rule of pad_train_test_indices (a multiple of 5 in
\* total for f = 0.8, not of 100).
C26_PaddingIsMinimal ==
    (pc = "done" /\ call.op = "compute_padding"
        /\ call.train_fraction = 10 * call.pct /\ call.pct \in 1..99) =>
        LET tgt == PadTarget(call.n_train, call.n_test, call.pct)
        IN  /\ ret.kind = "tuple"
            /\ tgt.kind = "ok"
            /\ call.n_train + ret.train = tgt.n_train
            /\ call.n_test + ret.test = tgt.n_test
            /\ call.pct = 80 => (call.n_train + ret.train + call.n_test + ret.test) % 5 = 0

\* C27: _compute_padding terminates for every train_fraction with
\* 0 < train_fraction < 1, the fractions that round to 0.00 or to 1.00 at two
\* decimals among them, and all num_train, num_test >= 0: its while loop
\* ends and it returns two numbers.
C27_ComputePaddingTerminates ==
    (pc = "done" /\ call.op = "compute_padding"
        /\ call.train_fraction > 0 /\ call.train_fraction < 1000) =>
        ret.kind = "tuple"

\* C23: the train fraction create_training_dataset derives from the indices
\* a caller passes, round(len(train) / (len(train) + len(test)), 2) before the
\* -1 are stripped, is the configured fraction that produced the split, for a
\* split of SplitTrials with enforce_train_fraction and for a split padded by
\* create_training_dataset_from_existing_split, whenever the split is not
\* empty.
C23_DerivedFractionIsConfigured ==
    /\ (IsSplitCall(TRUE) /\ ValidFraction(call.trainFraction)
            /\ ret.kind = "tuple" /\ Len(ret.train) + Len(ret.test) > 0) =>
          DerivedFraction(ret.train, ret.test) = call.trainFraction
    /\ (pc = "done" /\ call.op = "PadExistingSplit" /\ ValidFraction(call.trainFraction)
            /\ Len(call.train_idx) + Len(call.test_idx) > 0) =>
          /\ ret.kind = "tuple"
          /\ DerivedFraction(ret.train, ret.test) = call.trainFraction

\* 26 train and 7 test indices stored, 0.8 configured: 0.79 is derived from
\* the stored split, 0.8 from the split padded to 80 and 20
C23_Witness ==
    /\ pc = "done" /\ call.op = "PadExistingSplit"
    /\ Len(call.train_idx) = 26 /\ Len(call.test_idx) = 7 /\ call.trainFraction = 800
    /\ DerivedFraction(call.train_idx, call.test_idx) = 790
    /\ ret.kind = "tuple" /\ Len(ret.train) = 80 /\ Len(ret.test) = 20
    /\ DerivedFraction(ret.train, ret.test) = 800

\* the call goes into pad_train_test_indices at line 617
EntersPad ==
    /\ pc = "done" /\ call.op = "SplitTrials" /\ Accepted(call.trainFraction)
    /\ call.enforce
    /\ ~FloatMul(call.n, Round2(call.trainFraction)).is_integer

\* C28: SplitTrials never raises, for any input length, any accepted fraction
\* (0 and 1 too) and either value of enforce_train_fraction: when it goes
\* into pad_train_test_indices, min_n_train >= 1 and min_n_test >= 1, and
\* pad_train_test_indices does not take its bare return, so that the result
\* unpacks into two arrays.
C28_SplitTrialsNeverRaises ==
    (pc = "done" /\ call.op = "SplitTrials" /\ Accepted(call.trainFraction)) =>
        /\ ret.kind = "tuple"
        /\ EntersPad =>
              LET pct == Round2(call.trainFraction)
                  k == FloatMul(call.n, pct).int
                  train_indices == TrainSlice(call.shuffle, k)
                  test_indices == TestSlice(call.shuffle, k)
              IN  /\ PadTarget(Len(train_indices), Len(test_indices), pct).kind = "ok"
                  /\ pad_train_test_indices(train_indices, test_indices, pct).kind = "tuple"

(***************************************************************************)
(* Shuffle registry: get_existing_shuffle_indices, lines 1367-1439, and    *)
(* validate_shuffles, lines 1442-1469.  A metadata file                    *)
(* Documentation_data-<task>_<pct>shuffle<idx>.pickle is the key           *)
(* <<pct, idx>> of docs.                                                   *)
(***************************************************************************)
MaxShuffle == 3       \* largest shuffle index of the model
MaxNumShuffles == 3   \* largest num_shuffles a caller asks for

\* a key whose index no other key is below
LowestKey(keys) == CHOOSE k \in keys : \A o \in keys : k[2] < o[2] \/ (k[2] = o[2] /\ k[1] <= o[1])

RECURSIVE SortedIndices(_)
SortedIndices(keys) ==
    IF keys = {} THEN <<>>
    ELSE <<LowestKey(keys)[2]>> \o SortedIndices(keys \ {LowestKey(keys)})

\* the engine of the project, and the other one; the model folders of
\* models are those of the engine of the project
Engines == {"pytorch", "tensorflow"}

ProjectEngine == "pytorch"

\* lines 1429-1436: the model folder of the shuffle exists for the engine
ModelFolderExists(files, train_fraction, idx, engine) ==
    engine = ProjectEngine /\ <<FloatMul(100, train_fraction \div 10).int, idx>> \in files.models

\* lines 1386-1400 and 1410-1418: the metadata files that count, all of them
\* or those of one train fraction
ValidDataStems(files, train_fraction) ==
    {k \in DOMAIN files.docs :
        ~train_fraction.some \/ k[1] = FloatMul(100, train_fraction.val \div 10).int}

\* lines 1402-1439 with every argument; train_fraction and engine are None
\* or Some(v)
get_existing_shuffle_indices_of(files, train_fraction, engine) ==
    IF ~files.folder THEN [kind |-> "list", shuffle_indices |-> <<>>]
    ELSE IF engine.some /\ ~train_fraction.some
    THEN [kind |-> "raise", error |-> "ValueError"]
    ELSE LET stems == ValidDataStems(files, train_fraction)
             kept == IF engine.some
                     THEN {k \in stems :
                              ModelFolderExists(files, train_fraction.val, k[2], engine.val)}
                     ELSE stems
         IN  [kind |-> "list", shuffle_indices |-> SortedIndices(kept)]

\* get_existing_shuffle_indices(cfg), train_fraction and engine not given
get_existing_shuffle_indices(files) ==
    get_existing_shuffle_indices_of(files, [some |-> FALSE], [some |-> FALSE]).shuffle_indices

InSeq(x, seq) == \E i \in DOMAIN seq : seq[i] = x

None == [some |-> FALSE]

Some(v) == [some |-> TRUE, val |-> v]

\* lines 1450-1452
FirstIndex(existing_shuffles) ==
    IF Len(existing_shuffles) > 0 THEN existing_shuffles[Len(existing_shuffles)] + 1 ELSE 1

\* a slip in line 1454: range(first_index, num_shuffles)
AutoShufflesNoOffset(first_index, num_shuffles) == RangeFrom(first_index, num_shuffles - first_index)

\* line 1454: range(first_index, num_shuffles + first_index)
AutoShuffles(first_index, num_shuffles) == RangeFrom(first_index, num_shuffles)

IsInt(i) == i \in Int

\* a slip in line 1458: the check is made without userfeedback, not with it
CollisionsWhenNoFeedback(shuffles, existing_shuffles, userfeedback) ==
    {i \in DOMAIN shuffles : ~userfeedback /\ InSeq(shuffles[i], existing_shuffles)}

\* positions of shuffles that fail the check of line 1458
Collisions(shuffles, existing_shuffles, userfeedback) ==
    {i \in DOMAIN shuffles : userfeedback /\ InSeq(shuffles[i], existing_shuffles)}

Min(S) == CHOOSE x \in S : \A y \in S : x <= y

\* a slip in line 1458: the collision check is skipped
validate_shuffles_no_check(existing_shuffles, shuffles, num_shuffles, userfeedback) ==
    IF ~shuffles.some
    THEN [kind |-> "ok", shuffles |-> AutoShuffles(FirstIndex(existing_shuffles), num_shuffles)]
    ELSE [kind |-> "ok", shuffles |-> SelectSeq(shuffles.val, IsInt)]

validate_shuffles(existing_shuffles, shuffles, num_shuffles, userfeedback) ==
    IF ~shuffles.some
    THEN [kind |-> "ok", shuffles |-> AutoShuffles(FirstIndex(existing_shuffles), num_shuffles)]
    ELSE LET ints == SelectSeq(shuffles.val, IsInt)
             bad == Collisions(ints, existing_shuffles, userfeedback)
         IN  IF bad # {}
             THEN [kind |-> "raise", error |-> "ValueError",
                   shuffle_idx |-> ints[Min(bad)], existing |-> existing_shuffles]
             ELSE [kind |-> "ok", shuffles |-> ints]

(***************************************************************************)
(* create_training_dataset, lines 786-1355, for a single-animal project.   *)
(* A split is [trainFraction, shuffle, train, test], trainFraction in      *)
(* thousandths.                                                            *)
(***************************************************************************)
\* int(100 * trainFraction) of a two-decimal fraction: the <pct> of the names
\* of the data, metadata and model folders (line 1399)
IntPct(trainFraction) == FloatMul(100, trainFraction \div 10).int

FileKey(split) == <<IntPct(split.trainFraction), split.shuffle>>

\* lines 1135-1143: one SplitTrials call per train fraction and shuffle, the
\* outcome of its permutation taken from perms
FreshSplits(TrainingFraction, Shuffles, rows, perms) ==
    [k \in 1..(Len(TrainingFraction) * Len(Shuffles)) |->
        LET fi == ((k - 1) \div Len(Shuffles)) + 1
            si == ((k - 1) % Len(Shuffles)) + 1
            st == SplitTrials(Range(rows), TrainingFraction[fi], FALSE, perms[k])
        IN  [trainFraction |-> TrainingFraction[fi], shuffle |-> Shuffles[si],
             train |-> st.train, test |-> st.test]]

\* line 1145: len(trainIndices) != len(testIndices) != len(Shuffles)
LengthsDiffer(trainIndices, testIndices, Shuffles) ==
    Len(trainIndices) # Len(testIndices) /\ Len(testIndices) # Len(Shuffles)

\* a slip in line 1164: the test indices are stored as they are passed
RECURSIVE GivenSplitsTestAsPassed(_, _, _, _)
GivenSplitsTestAsPassed(trainIndices, testIndices, Shuffles, k) ==
    IF k = 0 THEN [kind |-> "ok", splits |-> <<>>]
    ELSE LET before == GivenSplitsTestAsPassed(trainIndices, testIndices, Shuffles, k - 1)
             train_inds == trainIndices[k]
             test_inds == testIndices[k]
             total == Len(train_inds) + Len(test_inds)
         IN  IF before.kind # "ok" THEN before
             ELSE IF total = 0 THEN [kind |-> "raise", error |-> "ZeroDivisionError"]
             ELSE IF k > Len(Shuffles) THEN [kind |-> "raise", error |-> "IndexError"]
             ELSE [kind |-> "ok",
                   splits |-> Append(before.splits,
                       [trainFraction |-> DerivedFraction(train_inds, test_inds),
                        shuffle |-> Shuffles[k],
                        train |-> Strip(train_inds), test |-> test_inds])]

\* lines 1150-1167, up to split number k; the first failure ends the loop
RECURSIVE GivenSplits(_, _, _, _)
GivenSplits(trainIndices, testIndices, Shuffles, k) ==
    IF k = 0 THEN [kind |-> "ok", splits |-> <<>>]
    ELSE LET before == GivenSplits(trainIndices, testIndices, Shuffles, k - 1)
             train_inds == trainIndices[k]
             test_inds == testIndices[k]
             total == Len(train_inds) + Len(test_inds)
         IN  IF before.kind # "ok" THEN before
             ELSE IF total = 0 THEN [kind |-> "raise", error |-> "ZeroDivisionError"]
             ELSE IF k > Len(Shuffles) THEN [kind |-> "raise", error |-> "IndexError"]
             ELSE [kind |-> "ok",
                   splits |-> Append(before.splits,
                       [trainFraction |-> DerivedFraction(train_inds, test_inds),
                        shuffle |-> Shuffles[k],
                        train |-> Strip(train_inds), test |-> Strip(test_inds)])]

\* askuser is one of the answers lines 1184-1189 take for a refusal
Declines(askuser) == askuser \in {"no", "No", "N"}

\* lines 1198-1353: the data and metadata files, the ledger entry, the model
\* folder and its pose configs of one split
Materialize(files, split) ==
    [docs |-> (FileKey(split) :> [train |-> split.train, test |-> split.test,
                                   trainFraction |-> split.trainFraction]) @@ files.docs,
     models |-> files.models \cup {FileKey(split)},
     ledger |-> (<<split.trainFraction, split.shuffle>> :>
                    [train |-> split.train, test |-> split.test]) @@ files.ledger,
     folder |-> files.folder]

\* a slip in lines 1184-1192: a declined pair is skipped and the loop goes on
RECURSIVE MaterializeFromSkipDeclined(_, _, _, _, _, _)
MaterializeFromSkipDeclined(k, splits, files, TrainingFraction, userfeedback, askuser) ==
    IF k > Len(splits) THEN [ret |-> [kind |-> "splits", splits |-> splits], files |-> files]
    ELSE IF Len(splits[k].train) = 0
         THEN MaterializeFromSkipDeclined(k + 1, splits, files, TrainingFraction,
                                          userfeedback, askuser)
    ELSE IF userfeedback /\ ~InSeq(splits[k].trainFraction, TrainingFraction)
         THEN [ret |-> [kind |-> "raise", error |-> "ValueError", line |-> 1177], files |-> files]
    ELSE IF userfeedback /\ FileKey(splits[k]) \in files.models /\ Declines(askuser[k])
         THEN MaterializeFromSkipDeclined(k + 1, splits, files, TrainingFraction,
                                          userfeedback, askuser)
    ELSE MaterializeFromSkipDeclined(k + 1, splits, Materialize(files, splits[k]),
                                     TrainingFraction, userfeedback, askuser)

\* a slip in lines 1180-1192: the pair is written without the prompt
RECURSIVE MaterializeFromNoPrompt(_, _, _, _, _, _)
MaterializeFromNoPrompt(k, splits, files, TrainingFraction, userfeedback, askuser) ==
    IF k > Len(splits) THEN [ret |-> [kind |-> "splits", splits |-> splits], files |-> files]
    ELSE IF Len(splits[k].train) = 0
         THEN MaterializeFromNoPrompt(k + 1, splits, files, TrainingFraction,
                                      userfeedback, askuser)
    ELSE IF userfeedback /\ ~InSeq(splits[k].trainFraction, TrainingFraction)
         THEN [ret |-> [kind |-> "raise", error |-> "ValueError", line |-> 1177], files |-> files]
    ELSE MaterializeFromNoPrompt(k + 1, splits, Materialize(files, splits[k]),
                                 TrainingFraction, userfeedback, askuser)

\* lines 1171-1355: the splits are materialized in order
RECURSIVE MaterializeFrom(_, _, _, _, _, _)
MaterializeFrom(k, splits, files, TrainingFraction, userfeedback, askuser) ==
    IF k > Len(splits) THEN [ret |-> [kind |-> "splits", splits |-> splits], files |-> files]
    ELSE IF Len(splits[k].train) = 0
         THEN MaterializeFrom(k + 1, splits, files, TrainingFraction, userfeedback, askuser)
    ELSE IF userfeedback /\ ~InSeq(splits[k].trainFraction, TrainingFraction)
         THEN [ret |-> [kind |-> "raise", error |-> "ValueError", line |-> 1177], files |-> files]
    ELSE IF userfeedback /\ FileKey(splits[k]) \in files.models /\ Declines(askuser[k])
         THEN [ret |-> [kind |-> "raise", error |-> "Exception", line |-> 1190], files |-> files]
    ELSE MaterializeFrom(k + 1, splits, Materialize(files, splits[k]),
                         TrainingFraction, userfeedback, askuser)

\* args: num_shuffles, Shuffles, userfeedback, trainIndices, testIndices;
\* perms: the outcomes of np.random.permutation; askuser: the answers typed
\* lines 1039-1044 and 696-698: attempt_to_make_folder of the training-set folder
MakeTrainsetFolder(files) == [files EXCEPT !.folder = TRUE]

\* lines 1033-1355, the branch of a single-animal project; files: the disk
\* once the training-set folder is made
SingleAnimalDataset(project, files, args, perms, askuser) ==
    IF ~project.hasData THEN [ret |-> [kind |-> "None"], files |-> files]
    ELSE LET valid == validate_shuffles(get_existing_shuffle_indices(files),
                                        args.Shuffles, args.num_shuffles, args.userfeedback)
         IN  IF valid.kind = "raise" THEN [ret |-> valid, files |-> files]
             ELSE IF ~args.trainIndices.some /\ ~args.testIndices.some
             THEN MaterializeFrom(1,
                      FreshSplits(project.TrainingFraction, valid.shuffles, project.rows, perms),
                      files, project.TrainingFraction, args.userfeedback, askuser)
             ELSE IF ~args.trainIndices.some \/ ~args.testIndices.some
             THEN [ret |-> [kind |-> "raise", error |-> "TypeError"], files |-> files]
             ELSE IF LengthsDiffer(args.trainIndices.val, args.testIndices.val, valid.shuffles)
             THEN [ret |-> [kind |-> "raise", error |-> "ValueError", line |-> 1146],
                   files |-> files]
             ELSE LET n == IF Len(args.trainIndices.val) <= Len(args.testIndices.val)
                           THEN Len(args.trainIndices.val) ELSE Len(args.testIndices.val)
                      given == GivenSplits(args.trainIndices.val, args.testIndices.val,
                                           valid.shuffles, n)
                  IN  IF given.kind = "raise" THEN [ret |-> given, files |-> files]
                      ELSE MaterializeFrom(1, given.splits, files, project.TrainingFraction,
                                           args.userfeedback, askuser)

\* line 1014: cfg.get("multianimalproject", False)
Multianimal(project) ==
    "multianimalproject" \in DOMAIN project /\ project.multianimalproject

\* create_multianimaltraining_dataset of
\* multiple_individuals_trainingsetmanipulation, called at lines 1019-1031:
\* it materializes the shuffles of a multi-animal project as the
\* single-animal branch does
create_multianimaltraining_dataset(project, files, args, perms, askuser) ==
    SingleAnimalDataset(project, MakeTrainsetFolder(files), args, perms, askuser)

\* lines 1019-1031: the multi-animal branch has no return statement, an
\* exception of the callee goes through
NoReturn(made) ==
    IF made.ret.kind = "raise" THEN made ELSE [ret |-> [kind |-> "None"], files |-> made.files]

\* lines 1014-1355
create_training_dataset(project, files, args, perms, askuser) ==
    IF Multianimal(project)
    THEN NoReturn(create_multianimaltraining_dataset(project, files, args, perms, askuser))
    ELSE SingleAnimalDataset(project, MakeTrainsetFolder(files), args, perms, askuser)

(***************************************************************************)
(* mergeandsplit with uniform=True, lines 688-721 and 734, and             *)
(* create_training_model_comparison, lines 1566-1632.                      *)
(***************************************************************************)
mergeandsplit_uniform(project, trainindex, shuffle) ==
    IF ~project.hasData THEN EmptySplit
    ELSE IF trainindex + 1 > Len(project.TrainingFraction)
         THEN [kind |-> "raise", error |-> "IndexError"]
    ELSE SplitTrials(Range(project.rows), project.TrainingFraction[trainindex + 1], TRUE, shuffle)

\* lines 1588-1592
LargestShuffleIndex(existing_shuffles) ==
    IF Len(existing_shuffles) = 0 THEN 0 ELSE existing_shuffles[Len(existing_shuffles)] + 1

\* a slip in lines 1595-1598: mergeandsplit is called inside the loops over
\* the net and augmenter types, and draws again
RECURSIVE ComparisonFromResplit(_, _, _, _, _, _, _)
ComparisonFromResplit(t, project, files, args, largestshuffleindex, perms, shuffle_list) ==
    LET pairs == args.net_types * args.augmenter_types
        shuffle == t \div pairs
        idx_net == (t % pairs) \div args.augmenter_types
        idx_aug == (t % pairs) % args.augmenter_types
        drawn == perms[shuffle + 1]
        again == [i \in DOMAIN drawn |-> drawn[Len(drawn) + 1 - i]]
        split == mergeandsplit_uniform(project, args.trainindex,
                                       IF t % pairs = 0 THEN drawn ELSE again)
        get_max_shuffle_idx == largestshuffleindex + idx_aug + idx_net * args.augmenter_types
                                   + shuffle * args.augmenter_types * args.net_types
        made == create_training_dataset(project, MakeTrainsetFolder(files),
                    [num_shuffles |-> 1, Shuffles |-> Some(<<get_max_shuffle_idx>>),
                     userfeedback |-> args.userfeedback,
                     trainIndices |-> Some(<<split.train>>),
                     testIndices |-> Some(<<split.test>>)],
                    <<>>, args.askuser)
    IN  IF t >= args.num_shuffles * pairs
        THEN [ret |-> [kind |-> "shuffle_list", shuffle_list |-> shuffle_list], files |-> files]
        ELSE IF split.kind = "raise" THEN [ret |-> split, files |-> MakeTrainsetFolder(files)]
        ELSE IF made.ret.kind = "raise" THEN made
        ELSE ComparisonFromResplit(t + 1, project, made.files, args, largestshuffleindex,
                                   perms, Append(shuffle_list, get_max_shuffle_idx))

\* lines 1595-1630, from step t on; step t is the net and augmenter pair
\* t % (nets * augs) of the frozen split t \div (nets * augs)
RECURSIVE ComparisonFrom(_, _, _, _, _, _, _)
ComparisonFrom(t, project, files, args, largestshuffleindex, perms, shuffle_list) ==
    LET pairs == args.net_types * args.augmenter_types
        shuffle == t \div pairs
        idx_net == (t % pairs) \div args.augmenter_types
        idx_aug == (t % pairs) % args.augmenter_types
        split == mergeandsplit_uniform(project, args.trainindex, perms[shuffle + 1])
        get_max_shuffle_idx == largestshuffleindex + idx_aug + idx_net * args.augmenter_types
                                   + shuffle * args.augmenter_types * args.net_types
        made == create_training_dataset(project, MakeTrainsetFolder(files),
                    [num_shuffles |-> 1, Shuffles |-> Some(<<get_max_shuffle_idx>>),
                     userfeedback |-> args.userfeedback,
                     trainIndices |-> Some(<<split.train>>),
                     testIndices |-> Some(<<split.test>>)],
                    <<>>, args.askuser)
    IN  IF t >= args.num_shuffles * pairs
        THEN [ret |-> [kind |-> "shuffle_list", shuffle_list |-> shuffle_list], files |-> files]
        ELSE IF split.kind = "raise" THEN [ret |-> split, files |-> MakeTrainsetFolder(files)]
        ELSE IF made.ret.kind = "raise" THEN made
        ELSE ComparisonFrom(t + 1, project, made.files, args, largestshuffleindex, perms,
                            Append(shuffle_list, get_max_shuffle_idx))

\* args: trainindex, num_shuffles, net_types and augmenter_types (their
\* lengths), userfeedback, askuser
create_training_model_comparison(project, files, args, perms) ==
    ComparisonFrom(0, project, files, args,
                   LargestShuffleIndex(get_existing_shuffle_indices(files)), perms, <<>>)

(***************************************************************************)
(* create_training_dataset_from_existing_split, lines 1635-1795.  The      *)
(* split of the source shuffle is read from the metadata ledger.           *)
(***************************************************************************)
\* line 1762: the ledger entry of (from_trainsetindex, from_shuffle)
SourceKey(project, args) ==
    <<project.TrainingFraction[args.from_trainsetindex + 1], args.from_shuffle>>

\* lines 1765-1767
NumCopies(args) == IF args.shuffles.some THEN Len(args.shuffles.val) ELSE args.num_shuffles

\* a slip in lines 1766-1767: num_copies stays num_shuffles
NumCopiesOfNumShuffles(args) == args.num_shuffles

\* lines 1780-1795: create_training_dataset with num_copies copies of the
\* padded split
CopySplit(project, files, args, askuser, num_copies) ==
    LET shuffle == files.ledger[SourceKey(project, args)]
        padded == PadExistingSplit(shuffle.train, shuffle.test,
                                   project.TrainingFraction[args.from_trainsetindex + 1])
    IN  IF padded.kind # "tuple" THEN [ret |-> padded, files |-> files]
        ELSE create_training_dataset(project, files,
                 [num_shuffles |-> args.num_shuffles, Shuffles |-> args.shuffles,
                  userfeedback |-> args.userfeedback,
                  trainIndices |-> Some([i \in 1..num_copies |-> padded.train]),
                  testIndices |-> Some([i \in 1..num_copies |-> padded.test])],
                 <<>>, [i \in 1..num_copies |-> askuser])

\* a slip in lines 1766-1767: the copies are counted by num_shuffles only
create_training_dataset_from_existing_split_num_shuffles(project, files, args, askuser) ==
    IF SourceKey(project, args) \notin DOMAIN files.ledger
    THEN [ret |-> [kind |-> "raise", error |-> "ValueError", line |-> 1762], files |-> files]
    ELSE CopySplit(project, files, args, askuser, NumCopiesOfNumShuffles(args))

\* args: from_shuffle, from_trainsetindex, num_shuffles, shuffles, userfeedback
create_training_dataset_from_existing_split(project, files, args, askuser) ==
    IF SourceKey(project, args) \notin DOMAIN files.ledger
    THEN [ret |-> [kind |-> "raise", error |-> "ValueError", line |-> 1762], files |-> files]
    ELSE CopySplit(project, files, args, askuser, NumCopies(args))

(***************************************************************************)
(* The project: calls of the public functions on one project folder.       *)
(***************************************************************************)
MaxTypes == 2         \* largest number of net types, and of augmenter types

\* a project each: one valid fraction, a malformed fraction before a valid
\* one, a malformed fraction alone, no labeled data, a multi-animal project,
\* a fraction that two frames cannot meet
Projects ==
    { SmallProject,
      [TrainingFraction |-> <<800>>, rows |-> 2, hasData |-> TRUE],
      [TrainingFraction |-> <<500>>, rows |-> 2, hasData |-> TRUE,
       multianimalproject |-> TRUE],
      [TrainingFraction |-> <<333, 500>>, rows |-> 2, hasData |-> TRUE],
      [TrainingFraction |-> <<333>>, rows |-> 2, hasData |-> TRUE],
      [TrainingFraction |-> <<500>>, rows |-> 0, hasData |-> FALSE] }

Files == [docs |-> docs, models |-> models, ledger |-> ledger, folder |-> trainset_folder]

\* explicit Shuffles arguments: lists of up to two indices
ShuffleLists ==
    {<<>>} \cup {<<i>> : i \in 0..MaxShuffle} \cup {<<i, j>> : i, j \in 0..MaxShuffle}

Answers == {"yes", "no"}

\* explicit shuffles arguments of a copy: no index, one, or two in a row
CopyShuffleLists ==
    {<<>>} \cup {<<i>> : i \in 0..MaxShuffle} \cup {<<i, i + 1>> : i \in 0..(MaxShuffle - 1)}

\* np.random.permutation is called for the fractions SplitTrials accepts only
DrawsFor(TrainingFraction, nshuffles, rows) ==
    {perms \in [1..(Len(TrainingFraction) * nshuffles) -> PermutationsOf(rows)] :
        \A k \in DOMAIN perms :
            ~Accepted(TrainingFraction[((k - 1) \div nshuffles) + 1]) => perms[k] = Range(rows)}

Store(result) ==
    /\ ret' = result.ret
    /\ docs' = result.files.docs
    /\ models' = result.files.models
    /\ ledger' = result.files.ledger
    /\ trainset_folder' = result.files.folder
    /\ pc' = "done"
    /\ UNCHANGED cfg

\* splits a caller passes for a project of two frames: one train and one
\* test index, as they are (0.5), padded on both sides (0.5), and padded for
\* the fraction 0.8
SuppliedSplits ==
    { [train |-> <<0>>, test |-> <<1>>],
      [train |-> <<0, Sentinel>>, test |-> <<1, Sentinel>>],
      [train |-> <<0, Sentinel, Sentinel, Sentinel>>, test |-> <<1>>] }

\* the arguments trainIndices and testIndices: both None, one of them given,
\* or up to two copies of the arrays of a split of a configured fraction,
\* the same number of both or, for the split that is not padded, any number
SuppliedIndices(project) ==
    {<<None, None>>, <<Some(<<(<<0>>)>>), None>>, <<None, Some(<<(<<1>>)>>)>>}
        \cup {<<Some(Repeat(s.train, n)), Some(Repeat(s.test, m))>> :
                 s \in {x \in SuppliedSplits :
                           InSeq(DerivedFraction(x.train, x.test), project.TrainingFraction)},
                 n \in 0..2, m \in 0..2}

\* np.random.permutation is not called when the caller passes the indices
CallCreateTrainingDataset ==
    /\ pc = "idle"
    /\ \E Shuffles \in {None} \cup {Some(l) : l \in ShuffleLists},
          num_shuffles \in 0..MaxNumShuffles, userfeedback \in BOOLEAN, askuser \in Answers,
          indices \in SuppliedIndices(cfg) :
         LET nshuffles == IF Shuffles.some THEN Len(Shuffles.val) ELSE num_shuffles
             args == [num_shuffles |-> num_shuffles, Shuffles |-> Shuffles,
                      userfeedback |-> userfeedback,
                      trainIndices |-> indices[1], testIndices |-> indices[2]]
             given == indices[1].some \/ indices[2].some
         IN  /\ Shuffles.some => num_shuffles = 1
             /\ ~userfeedback => askuser = "yes"
             /\ ~Shuffles.some =>
                   FirstIndex(get_existing_shuffle_indices(Files)) + num_shuffles - 1 <= MaxShuffle
             /\ given => (Shuffles.some => Shuffles.val \in CopyShuffleLists)
             /\ (given /\ indices[1].some /\ indices[2].some
                       /\ Len(indices[1].val) # Len(indices[2].val)) =>
                   \A k \in DOMAIN indices[1].val : Strip(indices[1].val[k]) = indices[1].val[k]
             /\ \E perms \in IF given THEN {<<>>}
                              ELSE DrawsFor(cfg.TrainingFraction, nshuffles, cfg.rows) :
                   /\ call' = [op |-> "create_training_dataset", args |-> args,
                               perms |-> perms, askuser |-> askuser]
                   /\ Store(create_training_dataset(cfg, Files, args, perms,
                                [k \in 1..Max2(Len(perms), 2) |-> askuser]))

CallCreateTrainingModelComparison ==
    /\ pc = "idle"
    /\ \E trainindex \in 0..(Len(cfg.TrainingFraction) - 1),
          num_shuffles \in 0..MaxNumShuffles,
          net_types \in 1..MaxTypes, augmenter_types \in 1..MaxTypes,
          userfeedback \in BOOLEAN, askuser \in Answers :
         LET args == [trainindex |-> trainindex, num_shuffles |-> num_shuffles,
                      net_types |-> net_types, augmenter_types |-> augmenter_types,
                      userfeedback |-> userfeedback, askuser |-> <<askuser>>]
         IN  /\ ~userfeedback => askuser = "yes"
             /\ LargestShuffleIndex(get_existing_shuffle_indices(Files))
                    + num_shuffles * net_types * augmenter_types - 1 <= MaxShuffle
             /\ \E perms \in DrawsFor(<<cfg.TrainingFraction[trainindex + 1]>>,
                                      num_shuffles, cfg.rows) :
                   /\ call' = [op |-> "create_training_model_comparison", args |-> args,
                               perms |-> perms]
                   /\ Store(create_training_model_comparison(cfg, Files, args, perms))

CallValidateShuffles ==
    /\ pc = "idle"
    /\ \E shuffles \in {None} \cup {Some(l) : l \in ShuffleLists},
          num_shuffles \in 0..MaxNumShuffles, userfeedback \in BOOLEAN :
         /\ shuffles.some => num_shuffles = 1
         /\ call' = [op |-> "validate_shuffles", shuffles |-> shuffles,
                     num_shuffles |-> num_shuffles, userfeedback |-> userfeedback]
         /\ ret' = validate_shuffles(get_existing_shuffle_indices(Files), shuffles,
                                     num_shuffles, userfeedback)
    /\ pc' = "done"
    /\ UNCHANGED disk

\* the user accepts every overwrite
CallCreateTrainingDatasetFromExistingSplit ==
    /\ pc = "idle"
    /\ \E from_shuffle \in 0..MaxShuffle,
          from_trainsetindex \in 0..(Len(cfg.TrainingFraction) - 1),
          shuffles \in {None} \cup {Some(l) : l \in CopyShuffleLists},
          num_shuffles \in 0..MaxNumShuffles, userfeedback \in BOOLEAN :
         LET args == [from_shuffle |-> from_shuffle,
                      from_trainsetindex |-> from_trainsetindex,
                      num_shuffles |-> num_shuffles, shuffles |-> shuffles,
                      userfeedback |-> userfeedback]
         IN  /\ shuffles.some => num_shuffles = 1
             /\ ~shuffles.some =>
                   FirstIndex(get_existing_shuffle_indices(Files)) + num_shuffles - 1 <= MaxShuffle
             /\ call' = [op |-> "create_training_dataset_from_existing_split",
                         args |-> args, askuser |-> "yes"]
             /\ Store(create_training_dataset_from_existing_split(cfg, Files, args, "yes"))

\* train fractions a caller filters by
FilterFractions == {333, 500}

CallGetExistingShuffleIndices ==
    /\ pc = "idle"
    /\ \E train_fraction \in {None} \cup {Some(f) : f \in FilterFractions},
          engine \in {None} \cup {Some(e) : e \in Engines} :
         /\ call' = [op |-> "get_existing_shuffle_indices",
                     train_fraction |-> train_fraction, engine |-> engine]
         /\ ret' = get_existing_shuffle_indices_of(Files, train_fraction, engine)
    /\ pc' = "done"
    /\ UNCHANGED disk

Init ==
    /\ pc = "idle"
    /\ call = NoCall
    /\ ret = NoRet
    /\ cfg \in Projects
    /\ docs = NoFiles
    /\ models = {}
    /\ ledger = NoFiles
    /\ trainset_folder = FALSE

Next ==
    \/ CallCreateTrainingDataset
    \/ CallCreateTrainingModelComparison
    \/ CallValidateShuffles
    \/ CallGetExistingShuffleIndices
    \/ CallCreateTrainingDatasetFromExistingSplit
    \/ Return

Spec == Init /\ [][Next]_vars

(***************************************************************************)
(* Properties of the shuffle registry and of the batch callers, checked    *)
(* under Spec.                                                             *)
(***************************************************************************)
IsCall(op) == pc = "done" /\ call.op = op

ExistingIndices == {k[2] : k \in DOMAIN docs}

Malformed(tf) == ~ValidFraction(tf)

\* C5: a malformed train fraction is not fatal to a batch caller: neither
\* create_training_dataset nor create_training_model_comparison raises because
\* of it, and the splits of the valid fractions are still materialized.
C5_MalformedFractionNotFatal ==
    /\ (IsCall("create_training_dataset") /\ ~call.args.userfeedback
            /\ \E i \in DOMAIN cfg.TrainingFraction : Malformed(cfg.TrainingFraction[i])) =>
          /\ ret.kind # "raise"
          /\ ret.kind = "splits" =>
                \A k \in DOMAIN ret.splits :
                    ValidFraction(ret.splits[k].trainFraction) =>
                        <<ret.splits[k].trainFraction \div 10, ret.splits[k].shuffle>> \in DOMAIN docs
    /\ (IsCall("create_training_model_comparison") /\ ~call.args.userfeedback
            /\ Malformed(cfg.TrainingFraction[call.args.trainindex + 1])) =>
          ret.kind # "raise"

\* C6: an explicit shuffle index that exists already, with userfeedback, makes
\* validate_shuffles raise an error that names the index and lists the
\* existing indices, and create_training_dataset then materializes nothing:
\* the data, metadata and config files on disk are as before the call.
C6_DuplicateShuffleAborts ==
    [][(/\ pc = "idle"
        /\ call'.op = "create_training_dataset"
        /\ cfg.hasData
        /\ call'.args.userfeedback
        /\ call'.args.Shuffles.some
        /\ \E i \in DOMAIN call'.args.Shuffles.val :
               call'.args.Shuffles.val[i] \in ExistingIndices)
       => (/\ ret'.kind = "raise"
           /\ ret'.error = "ValueError"
           /\ InSeq(ret'.shuffle_idx, call'.args.Shuffles.val)
           /\ ret'.shuffle_idx \in ExistingIndices
           /\ {ret'.existing[i] : i \in DOMAIN ret'.existing} = ExistingIndices
           /\ docs' = docs /\ models' = models /\ ledger' = ledger)]_vars

\* shuffle 3 is requested when 1, 2 and 3 exist, together with a shuffle
\* that does not exist and is not created
C6_Witness ==
    /\ IsCall("create_training_dataset")
    /\ ret.kind = "raise" /\ ret.error = "ValueError"
    /\ call.args.Shuffles.some /\ call.args.Shuffles.val = <<0, 3>>
    /\ ret.shuffle_idx = 3 /\ ret.existing = <<1, 2, 3>>
    /\ 0 \notin ExistingIndices

\* C7: validate_shuffles never returns an index that exists already, whatever
\* the explicit indices, num_shuffles and userfeedback.
C7_NeverReturnsExisting ==
    (IsCall("validate_shuffles") /\ ret.kind = "ok") =>
        \A i \in DOMAIN ret.shuffles : ret.shuffles[i] \notin ExistingIndices

\* C7 as amended: validate_shuffles never returns an index that exists already
\* when userfeedback is set or when the indices are allocated by it.
C7_NeverReturnsExistingWithFeedback ==
    (IsCall("validate_shuffles") /\ ret.kind = "ok"
        /\ (call.userfeedback \/ ~call.shuffles.some)) =>
        \A i \in DOMAIN ret.shuffles : ret.shuffles[i] \notin ExistingIndices

\* explicit indices that do not exist are returned when others exist
C7_Witness ==
    /\ IsCall("validate_shuffles") /\ ret.kind = "ok"
    /\ call.shuffles.some /\ call.userfeedback
    /\ ret.shuffles = <<2, 3>>
    /\ ExistingIndices = {0, 1}

MaxOf(S) == CHOOSE x \in S : \A y \in S : y <= x

\* C8: without explicit shuffles, validate_shuffles returns num_shuffles
\* indices, a contiguous increasing run that starts one past the largest
\* existing index, or at 1 when no shuffle exists.
C8_AutoAllocatedRun ==
    (IsCall("validate_shuffles") /\ ~call.shuffles.some) =>
        LET start == IF ExistingIndices = {} THEN 1 ELSE MaxOf(ExistingIndices) + 1
        IN  /\ ret.kind = "ok"
            /\ Len(ret.shuffles) = call.num_shuffles
            /\ \A i \in 1..Len(ret.shuffles) : ret.shuffles[i] = start + i - 1

C8_Witness ==
    /\ IsCall("validate_shuffles") /\ ~call.shuffles.some
    /\ call.num_shuffles = 3
    /\ ExistingIndices = {0, 2}
    /\ ret.kind = "ok" /\ ret.shuffles = <<3, 4, 5>>

\* C12: get_existing_shuffle_indices with an engine filter and no
\* train_fraction always fails with an error and never returns a list,
\* whatever the state of the training-set folder of the project.
C12_EngineWithoutFractionRaises ==
    (IsCall("get_existing_shuffle_indices")
        /\ call.engine.some /\ ~call.train_fraction.some) =>
        ret.kind = "raise"

\* the disk once the pairs 1..j of the batch that have train indices are
\* materialized
RECURSIVE MaterializedUpTo(_, _, _)
MaterializedUpTo(splits, files, j) ==
    IF j = 0 THEN files
    ELSE LET before == MaterializedUpTo(splits, files, j - 1)
         IN  IF Len(splits[j].train) = 0 THEN before ELSE Materialize(before, splits[j])

\* the pairs of the batch whose train config exists when their turn comes
PromptedPairs(splits, files) ==
    {k \in DOMAIN splits :
        /\ Len(splits[k].train) > 0
        /\ FileKey(splits[k]) \in MaterializedUpTo(splits, files, k - 1).models}

\* the pairs of a create_training_dataset call that draws its splits itself
BatchOf(args, perms) ==
    FreshSplits(cfg.TrainingFraction,
                validate_shuffles(get_existing_shuffle_indices(MakeTrainsetFolder(Files)),
                                  args.Shuffles, args.num_shuffles, args.userfeedback).shuffles,
                cfg.rows, perms)

\* a create_training_dataset call with userfeedback, a batch that passes
\* validate_shuffles, and a user who declines
DeclinedBatchStep ==
    /\ pc = "idle"
    /\ call'.op = "create_training_dataset"
    /\ ~call'.args.trainIndices.some /\ ~call'.args.testIndices.some
    /\ cfg.hasData
    /\ call'.args.userfeedback
    /\ call'.askuser = "no"
    /\ validate_shuffles(get_existing_shuffle_indices(MakeTrainsetFolder(Files)),
                         call'.args.Shuffles, call'.args.num_shuffles, TRUE).kind = "ok"
    /\ PromptedPairs(BatchOf(call'.args, call'.perms), MakeTrainsetFolder(Files)) # {}

\* C15: with userfeedback, when the train config of a pair of the batch exists
\* and the user declines, create_training_dataset raises and no pair of the
\* batch is materialized by the call: the disk is as before the call.
C15_DeclineMaterializesNothing ==
    [][DeclinedBatchStep =>
          /\ ret'.kind = "raise" /\ ret'.error = "Exception"
          /\ docs' = docs /\ models' = models /\ ledger' = ledger]_vars

\* C15 as amended: the call raises at the first pair whose train config
\* exists; that pair and the pairs after it are not materialized, the pairs
\* before it are: the disk is as after materializing them.
C15_DeclineAbortsRestOfBatch ==
    [][DeclinedBatchStep =>
          LET splits == BatchOf(call'.args, call'.perms)
              k == Min(PromptedPairs(splits, MakeTrainsetFolder(Files)))
              kept == MaterializedUpTo(splits, MakeTrainsetFolder(Files), k - 1)
          IN  /\ ret'.kind = "raise" /\ ret'.error = "Exception"
              /\ docs' = kept.docs /\ models' = kept.models /\ ledger' = kept.ledger]_vars

\* shuffle 2 is listed twice: its first pair is materialized, the second
\* finds the train config, the user declines
C15_Witness ==
    /\ IsCall("create_training_dataset")
    /\ call.args.userfeedback /\ call.askuser = "no"
    /\ call.args.Shuffles.some /\ call.args.Shuffles.val = <<2, 2>>
    /\ ret.kind = "raise" /\ ret.error = "Exception"
    /\ <<50, 2>> \in DOMAIN docs /\ <<50, 2>> \in models

\* C17: when create_training_dataset has created the training dataset it
\* returns a list of tuples (train fraction, shuffle, (train, test)) that
\* holds the created splits, and it returns None only when nothing was
\* created, for a single-animal and for a multi-animal project.
C17_ReturnsSplitsWhenCreated ==
    [][(pc = "idle" /\ call'.op = "create_training_dataset" /\ ret'.kind # "raise") =>
          /\ (docs' # docs \/ models' # models \/ ledger' # ledger) =>
                 /\ ret'.kind = "splits"
                 /\ \A key \in DOMAIN docs' :
                        (key \notin DOMAIN docs \/ docs'[key] # docs[key]) =>
                            \E k \in DOMAIN ret'.splits :
                                /\ FileKey(ret'.splits[k]) = key
                                /\ ret'.splits[k].train = docs'[key].train
                                /\ ret'.splits[k].test = docs'[key].test
          /\ ret'.kind = "None" =>
                 (docs' = docs /\ models' = models /\ ledger' = ledger)]_vars

\* the metadata file of the shuffle idx
ShuffleDoc(idx) == docs[CHOOSE key \in DOMAIN docs : key[2] = idx]

\* the shuffle idx is on disk
Created(idx) == \E key \in DOMAIN docs : key[2] = idx

\* the shuffles i and j, when both are on disk, have the same indices
SameIndices(i, j) ==
    (Created(i) /\ Created(j)) =>
        /\ ShuffleDoc(i).train = ShuffleDoc(j).train
        /\ ShuffleDoc(i).test = ShuffleDoc(j).test

CopyStep ==
    /\ pc = "idle"
    /\ call'.op = "create_training_dataset_from_existing_split"
    /\ ~Multianimal(cfg)
    /\ SourceKey(cfg, call'.args) \in DOMAIN ledger
    /\ call'.askuser = "yes"
    /\ validate_shuffles(get_existing_shuffle_indices(MakeTrainsetFolder(Files)),
                         call'.args.shuffles, call'.args.num_shuffles,
                         call'.args.userfeedback).kind = "ok"

\* C20: every shuffle created by create_training_dataset_from_existing_split
\* gets, once the sentinels are stripped, the train and test indices of the
\* source shuffle (from_shuffle, from_trainsetindex), under the train
\* fraction of the source, and as many shuffles are created as shuffles has
\* entries, or num_shuffles when shuffles is None.
C20_CopiesHaveSourceIndices ==
    [][CopyStep =>
          LET source == ledger[SourceKey(cfg, call'.args)]
              fraction == cfg.TrainingFraction[call'.args.from_trainsetindex + 1]
              wanted == validate_shuffles(get_existing_shuffle_indices(MakeTrainsetFolder(Files)),
                                          call'.args.shuffles, call'.args.num_shuffles,
                                          call'.args.userfeedback).shuffles
          IN  /\ ret'.kind = "splits"
              /\ Len(ret'.splits) = IF call'.args.shuffles.some
                                    THEN Len(call'.args.shuffles.val)
                                    ELSE call'.args.num_shuffles
              /\ \A k \in DOMAIN ret'.splits :
                     /\ ret'.splits[k].shuffle = wanted[k]
                     /\ ret'.splits[k].trainFraction = fraction
                     /\ ret'.splits[k].train = source.train
                     /\ ret'.splits[k].test = source.test
                     /\ FileKey(ret'.splits[k]) \in DOMAIN docs'
                     /\ docs'[FileKey(ret'.splits[k])].train = source.train
                     /\ docs'[FileKey(ret'.splits[k])].test = source.test]_vars

\* shuffle 1 of a project of two frames at 0.8, one train and one test
\* index that are padded to 80 and 20, is copied to the shuffles 2 and 3
C20_Witness ==
    /\ IsCall("create_training_dataset_from_existing_split")
    /\ cfg.TrainingFraction = <<800>>
    /\ call.args.from_shuffle = 1
    /\ call.args.shuffles.some /\ call.args.shuffles.val = <<2, 3>>
    /\ call.args.userfeedback
    /\ ret.kind = "splits" /\ Len(ret.splits) = 2
    /\ \A idx \in 1..3 : <<80, idx>> \in DOMAIN docs
    /\ docs[<<80, 2>>].train = docs[<<80, 1>>].train
    /\ docs[<<80, 3>>].test = docs[<<80, 1>>].test

\* a create_training_dataset call with userfeedback whose user answers no
\* to every prompt
RefusedStep ==
    /\ pc = "idle"
    /\ call'.op = "create_training_dataset"
    /\ call'.args.userfeedback
    /\ call'.askuser = "no"

\* the first pair of the batch that has train indices and the files of key
FirstWith(splits, key) ==
    Min({k \in DOMAIN splits : Len(splits[k].train) > 0 /\ FileKey(splits[k]) = key})

NoSentinel(inds) == \A i \in DOMAIN inds : inds[i] # Sentinel

\* C22: the padding sentinel -1 never reaches real data: on every path
\* through create_training_dataset (a fresh split of SplitTrials, padded
\* indices of a caller, create_training_dataset_from_existing_split,
\* create_training_model_comparison) the train indices given to
\* format_training_data and the train and test indices stored as the
\* metadata of a shuffle hold no -1.
C22_NoSentinelInStoredIndices ==
    /\ \A key \in DOMAIN docs : NoSentinel(docs[key].train) /\ NoSentinel(docs[key].test)
    /\ \A key \in DOMAIN ledger : NoSentinel(ledger[key].train) /\ NoSentinel(ledger[key].test)
    /\ (pc = "done" /\ ret.kind = "splits") =>
          \A k \in DOMAIN ret.splits :
              NoSentinel(ret.splits[k].train) /\ NoSentinel(ret.splits[k].test)

\* a caller passes one train index padded with three -1 and one test index
\* under 0.8: the shuffle is stored with the two real indices
C22_Witness ==
    /\ IsCall("create_training_dataset")
    /\ call.args.trainIndices.some /\ call.args.testIndices.some
    /\ call.args.trainIndices.val = <<(<<0, Sentinel, Sentinel, Sentinel>>)>>
    /\ call.args.testIndices.val = <<(<<1>>)>>
    /\ call.args.Shuffles.some /\ call.args.Shuffles.val = <<2>>
    /\ ret.kind = "splits"
    /\ <<80, 2>> \in DOMAIN docs
    /\ docs[<<80, 2>>].train = <<0>> /\ docs[<<80, 2>>].test = <<1>>
    /\ ledger[<<800, 2>>].train = <<0>>

\* the Shuffles of a create_training_dataset call, once validate_shuffles
\* has resolved them
Resolved(args) ==
    validate_shuffles(get_existing_shuffle_indices(MakeTrainsetFolder(Files)),
                      args.Shuffles, args.num_shuffles, args.userfeedback)

\* a create_training_dataset call on labeled data with trainIndices and
\* testIndices, whose Shuffles pass validate_shuffles
SuppliedStep ==
    /\ pc = "idle"
    /\ call'.op = "create_training_dataset"
    /\ cfg.hasData
    /\ call'.args.trainIndices.some /\ call'.args.testIndices.some
    /\ Resolved(call'.args).kind = "ok"

\* C25: create_training_dataset raises ValueError, before it materializes
\* anything, whenever the trainIndices and testIndices of the caller and the
\* resolved Shuffles do not all have the same number of entries.
C25_LengthMismatchRaises ==
    [][(/\ SuppliedStep
        /\ ~(/\ Len(call'.args.trainIndices.val) = Len(call'.args.testIndices.val)
             /\ Len(call'.args.testIndices.val) = Len(Resolved(call'.args).shuffles)))
       => (/\ ret'.kind = "raise" /\ ret'.error = "ValueError"
           /\ docs' = docs /\ models' = models /\ ledger' = ledger)]_vars

(***************************************************************************)
(* parse_video_filenames, lines 478-526, merge_annotateddatasets, lines    *)
(* 529-585, and mergeandsplit with uniform=False, lines 688-712 and        *)
(* 722-734.  A video of config.yaml is the record of the parts of its      *)
(* path; the project is its list of videos (the keys of video_sets) and    *)
(* the number of labeled frames of the folder of each parsed filename (0:  *)
(* no CollectedData file).  A row of the merged table is                   *)
(* <<folder, image>>.                                                      *)
(***************************************************************************)
MaxVideos == 2        \* largest number of videos of config.yaml
MaxFrames == 2        \* largest number of labeled frames of a folder

\* lines 502 and 464-475: the suffix is .avi, whatever the case
IsAvi(video) == video.suffix \in {".avi", ".AVI"}

\* lines 502-508: the filename of a video
Filename(video) ==
    IF IsAvi(video) THEN video.stem
    ELSE video.parent_parent \o "_" \o video.parent \o "_" \o video.stem

\* lines 499-515 and 526, the videos up to the k-th
RECURSIVE ParsedUpTo(_, _)
ParsedUpTo(videos, k) ==
    IF k = 0 THEN <<>>
    ELSE LET filenames == ParsedUpTo(videos, k - 1)
             filename == Filename(videos[k])
         IN  IF InSeq(filename, filenames) THEN filenames ELSE Append(filenames, filename)

parse_video_filenames(videos) == ParsedUpTo(videos, Len(videos))

\* the folder names of the model, as sort_index orders them (line 566)
SortedFolders ==
    <<"_data_video-1", "_data_video-2",
      "my-dlc-project_videos_video-1", "my-dlc-project_videos_video-2",
      "video-1", "video-2">>

\* lines 541-555: the number of labeled frames read for the folder
FramesOf(project, folder) ==
    LET video_filenames == parse_video_filenames(project.videos)
        found == {k \in DOMAIN video_filenames : video_filenames[k] = folder}
    IN  IF found = {} THEN 0 ELSE project.labeled[CHOOSE k \in found : TRUE]

\* lines 566-585: the rows of the merged table, in the order of its index,
\* from the s-th folder name on
RECURSIVE MergedRowsFrom(_, _)
MergedRowsFrom(project, s) ==
    IF s > Len(SortedFolders) THEN <<>>
    ELSE [i \in 1..FramesOf(project, SortedFolders[s]) |-> <<SortedFolders[s], i - 1>>]
             \o MergedRowsFrom(project, s + 1)

\* lines 529-585: None when no data is found
merge_annotateddatasets(project) ==
    LET rows == MergedRowsFrom(project, 1)
    IN  IF Len(rows) = 0 THEN None ELSE Some(rows)

\* line 724: Path(i).stem of the video trainindex
TestVideoName(project, trainindex) == project.videos[trainindex + 1].stem

IsTestRow(Data, test_video_name, index) == Data[index + 1][1] = test_video_name

\* lines 726-732: the row positions that are, or are not, of the test video
RECURSIVE LeaveOneOutFrom(_, _, _, _)
LeaveOneOutFrom(Data, test_video_name, test, index) ==
    IF index >= Len(Data) THEN <<>>
    ELSE (IF IsTestRow(Data, test_video_name, index) = test THEN <<index>> ELSE <<>>)
             \o LeaveOneOutFrom(Data, test_video_name, test, index + 1)

\* mergeandsplit(config, trainindex, uniform=False), lines 688-712 and 722-734
mergeandsplit_leave_one_out(project, trainindex) ==
    LET Data == merge_annotateddatasets(project)
    IN  IF ~Data.some THEN EmptySplit
        ELSE IF trainindex + 1 > Len(project.videos)
        THEN [kind |-> "raise", error |-> "IndexError"]
        ELSE [kind |-> "tuple",
              train |-> LeaveOneOutFrom(Data.val, TestVideoName(project, trainindex), FALSE, 0),
              test |-> LeaveOneOutFrom(Data.val, TestVideoName(project, trainindex), TRUE, 0)]

\* the videos: /data/<stem><suffix> and /my-dlc-project/videos/<stem><suffix>
Videos ==
    [parent_parent : {""}, parent : {"data"},
     stem : {"video-1", "video-2"}, suffix : {".mov", ".avi"}]
    \cup [parent_parent : {"my-dlc-project"}, parent : {"videos"},
          stem : {"video-1", "video-2"}, suffix : {".mov", ".avi"}]

\* the keys of video_sets: up to MaxVideos paths, no path twice
VideoLists ==
    UNION {{v \in [1..n -> Videos] : Injective(v)} : n \in 0..MaxVideos}

\* every project has the train fraction 0.5
VideoProjects ==
    UNION {{[videos |-> v, labeled |-> l, TrainingFraction |-> <<500>>] :
               l \in [1..Len(parse_video_filenames(v)) -> 0..MaxFrames]} : v \in VideoLists}

\* lines 1051-1057: create_training_dataset merges the labeled data itself
DatasetProject(project) ==
    LET Data == merge_annotateddatasets(project)
    IN  [TrainingFraction |-> project.TrainingFraction,
         rows |-> IF Data.some THEN Len(Data.val) ELSE 0,
         hasData |-> Data.some]

CallParseVideoFilenames ==
    /\ pc = "idle"
    /\ call' = [op |-> "parse_video_filenames"]
    /\ ret' = [kind |-> "list", filenames |-> parse_video_filenames(cfg.videos)]
    /\ pc' = "done"
    /\ UNCHANGED disk

\* lines 693-698: the training-set folder is made
CallMergeAndSplit ==
    /\ pc = "idle"
    /\ \E trainindex \in 0..(Len(cfg.videos) - 1) :
         /\ call' = [op |-> "mergeandsplit", trainindex |-> trainindex, uniform |-> FALSE]
         /\ ret' = mergeandsplit_leave_one_out(cfg, trainindex)
    /\ trainset_folder' = TRUE
    /\ pc' = "done"
    /\ UNCHANGED <<cfg, docs, models, ledger>>

\* lines 674-678 of the docstring of mergeandsplit: the split it returned,
\* when it has train indices, is made a shuffle that does not exist yet, with
\* the defaults of create_training_dataset (userfeedback=True)
CallCreateTrainingDatasetOfSplit ==
    /\ pc = "done"
    /\ call.op = "mergeandsplit"
    /\ ret.kind = "tuple" /\ Len(ret.train) > 0
    /\ \E k \in 0..MaxShuffle :
         LET args == [num_shuffles |-> 1, Shuffles |-> Some(<<k>>), userfeedback |-> TRUE,
                      trainIndices |-> Some(<<ret.train>>),
                      testIndices |-> Some(<<ret.test>>)]
         IN  /\ ~InSeq(k, get_existing_shuffle_indices(Files))
             /\ call' = [op |-> "create_training_dataset", args |-> args,
                         perms |-> <<>>, askuser |-> "yes"]
             /\ Store(create_training_dataset(DatasetProject(cfg), Files, args, <<>>,
                                              <<"yes">>))

VideoInit ==
    /\ pc = "idle"
    /\ call = NoCall
    /\ ret = NoRet
    /\ cfg \in VideoProjects
    /\ docs = NoFiles
    /\ models = {}
    /\ ledger = NoFiles
    /\ trainset_folder = FALSE

VideoNext ==
    \/ CallParseVideoFilenames
    \/ CallMergeAndSplit
    \/ CallCreateTrainingDatasetOfSplit
    \/ Return

VideoSpec == VideoInit /\ [][VideoNext]_vars

\* the row positions of the merged table that are in the folders of S
RowsOfFolders(Data, S) == {index \in 0..(Len(Data) - 1) : Data[index + 1][1] \in S}

Elements(seq) == {seq[i] : i \in DOMAIN seq}

\* C16: mergeandsplit(uniform=False, trainindex=k) returns as testIndices the
\* row positions of the merged table that belong to the labeled-data folder
\* of the k-th video of the config, the folder merge_annotateddatasets reads
\* for it, and as trainIndices all the other row positions; every row
\* position is in exactly one of the two lists.
C16_LeaveOneFolderOut ==
    (IsCall("mergeandsplit") /\ merge_annotateddatasets(cfg).some) =>
        LET Data == merge_annotateddatasets(cfg).val
            folder == Filename(cfg.videos[call.trainindex + 1])
        IN  /\ ret.kind = "tuple"
            /\ Elements(ret.test) = RowsOfFolders(Data, {folder})
            /\ Elements(ret.train) = (0..(Len(Data) - 1)) \ RowsOfFolders(Data, {folder})
            /\ Len(ret.test) + Len(ret.train) = Len(Data)

\* C18: parse_video_filenames returns each video name once, in the order of
\* the first occurrence: a video listed under two paths has one entry.
C18_EachVideoNameOnce ==
    IsCall("parse_video_filenames") =>
        /\ Len(ret.filenames) = Cardinality({cfg.videos[i].stem : i \in DOMAIN cfg.videos})
        /\ \A i, j \in DOMAIN ret.filenames : i # j => ret.filenames[i] # ret.filenames[j]


\* C24: a leave-one-folder-out split of mergeandsplit(uniform=False) that has
\* train indices can be made a new shuffle k by
\* create_training_dataset(config, Shuffles=[k], trainIndices=[train],
\* testIndices=[test]) with the other arguments at their defaults: the call
\* creates the shuffle k and does not raise, whatever the ratio of the split.
C24_LeaveOneOutSplitMaterializes ==
    IsCall("create_training_dataset") =>
        /\ ret.kind = "splits"
        /\ \E key \in DOMAIN docs : key[2] = call.args.Shuffles.val[1]

====
